---- MODULE Spec2Model ----
(***************************************************************************)
(* A model of calc.py, a command-line calculator over streams of numbers.  *)
(*                                                                         *)
(* Four specifications share this module:                                  *)
(*   SpecCalc    the transformations as pure functions of the input data   *)
(*   SpecHist    hist_formatter as a pure function of a histogram          *)
(*   SpecReg     the CommandProcessor registry and its methods             *)
(*   Spec        the driver: reader -> parser -> transformation -> print   *)
(*                                                                         *)
(* Numbers are exact: an input number is an integer, a quotient is a       *)
(* rational <<numerator, denominator>> in lowest terms (denominator > 0).  *)
(* Floating-point rounding is outside the model.                           *)
(***************************************************************************)
EXTENDS Integers, Sequences, FiniteSets, TLC

(* ------------------------------ bounds -------------------------------- *)

\* longest data sequence handed to a transformation in SpecCalc
MaxData == 3
\* largest data value in SpecCalc (values are 0..MaxValue)
MaxValue == 3

\* most bins of a histogram handed to hist_formatter in SpecHist
MaxBins == 3

\* most register_command calls in SpecReg
MaxRegs == 3
\* items in the data iterator handed to CommandProcessor.process in SpecReg
RegDataLen == 2

\* most lines the reader hands out in Spec
MaxLines == 3

(* ------------------------- program constants -------------------------- *)

\* hist_formatter's default max_width
DefaultMaxWidth == 80
\* the longest string '%0.2g' makes of a float, such as -1.2e+100
MaxLabelLen == 9

\* num_hist_bins, the default number of bins of hist
num_hist_bins == 10
\* the largest x for which math.exp(x) is a float; beyond it OverflowError
ExpMax == 709

(* --------------------------- exact arithmetic ------------------------- *)

Abs(i) == IF i < 0 THEN -i ELSE i

RECURSIVE GCD(_, _)
GCD(a, b) == IF b = 0 THEN a ELSE GCD(b, a % b)

\* the rational n/d in lowest terms, d > 0
Rat(n, d) ==
  LET s == IF d < 0 THEN -1 ELSE 1
      g == GCD(Abs(n), Abs(d))
  IN  <<(s * n) \div g, (s * d) \div g>>

RInt(i) == <<i, 1>>
RAdd(p, q) == Rat(p[1] * q[2] + q[1] * p[2], p[2] * q[2])
RSub(p, q) == Rat(p[1] * q[2] - q[1] * p[2], p[2] * q[2])
RMul(p, q) == Rat(p[1] * q[1], p[2] * q[2])
RDiv(p, q) == Rat(p[1] * q[2], p[2] * q[1])

\* floor of the square root of a natural number below 2^31, by bisection:
\* lo * lo <= m < hi * hi throughout, and 46341 * 46341 > 2^31
RECURSIVE ISqrtBetween(_, _, _)
ISqrtBetween(m, lo, hi) ==
  IF hi - lo <= 1 THEN lo
  ELSE LET mid == (lo + hi) \div 2
       IN  IF mid * mid <= m THEN ISqrtBetween(m, mid, hi)
           ELSE ISqrtBetween(m, lo, mid)
ISqrt(m) == ISqrtBetween(m, 0, IF m < 46341 THEN m + 1 ELSE 46341)

\* round(x, 2) of a rational x, in hundredths (Python 2 rounds half away from 0)
Round2(p) ==
  LET a == (Abs(p[1]) * 200 + p[2]) \div (2 * p[2])
  IN  IF p[1] < 0 THEN -a ELSE a

\* round(sqrt(x), 2) of a rational x >= 0, in hundredths
Round2Sqrt(p) == (ISqrt((40000 * p[1]) \div p[2]) + 1) \div 2

Last(s) == s[Len(s)]
Front(s) == SubSeq(s, 1, Len(s) - 1)

RECURSIVE SeqsUpTo(_, _)
SeqsUpTo(S, n) ==
  IF n = 0 THEN {<<>>}
  ELSE LET shorter == SeqsUpTo(S, n - 1)
       IN  shorter \cup {Append(s, x) : s \in {t \in shorter : Len(t) = n - 1}, x \in S}

(* ------------------------- the transformations ------------------------ *)
(* A transformation is a generator over the data.  Its model returns what  *)
(* the generator does when it is run to its end:                           *)
(*   [raised |-> "none" or the exception's name, yielded |-> the values]   *)

Ran(vals) == [raised |-> "none", yielded |-> vals]
Raised(exc, vals) == [raised |-> exc, yielded |-> vals]

\* the builtin sum(): 0 + data[1] + ... + data[n], left to right
RECURSIVE SumFrom(_, _)
SumFrom(s, data) == IF data = <<>> THEN s ELSE SumFrom(s + Head(data), Tail(data))

RECURSIVE ProdFrom(_, _)
ProdFrom(prod, data) ==
  IF data = <<>> THEN prod ELSE ProdFrom(prod * Head(data), Tail(data))

\* s_cumsum: s = 0; for x in data: s += x; yield s
RECURSIVE CumsumFrom(_, _)
CumsumFrom(s, data) ==
  IF data = <<>> THEN <<>>
  ELSE <<s + Head(data)>> \o CumsumFrom(s + Head(data), Tail(data))

\* s_cumsum with the yield before the addition
RECURSIVE CumsumYieldFirst(_, _)
CumsumYieldFirst(s, data) ==
  IF data = <<>> THEN <<>>
  ELSE <<s>> \o CumsumYieldFirst(s + Head(data), Tail(data))

s_cumsum_yield_first(data) == Ran(CumsumYieldFirst(0, data))

s_cumsum(data) == Ran(CumsumFrom(0, data))

\* s_cumprod: prod = 1.0; for x in data: prod *= x; yield prod
RECURSIVE CumprodFrom(_, _)
CumprodFrom(prod, data) ==
  IF data = <<>> THEN <<>>
  ELSE <<prod * Head(data)>> \o CumprodFrom(prod * Head(data), Tail(data))

s_cumprod(data) == Ran(CumprodFrom(1, data))

\* s_prod: prod = 1.0; for x in data: prod *= x; then one yield
s_prod(data) == Ran(<<ProdFrom(1, data)>>)

s_sum(data) == Ran(<<SumFrom(0, data)>>)

\* the builtins max() and min() raise ValueError on an empty iterable
RECURSIVE MaxFrom(_, _)
MaxFrom(m, data) ==
  IF data = <<>> THEN m
  ELSE MaxFrom(IF Head(data) > m THEN Head(data) ELSE m, Tail(data))

RECURSIVE MinFrom(_, _)
MinFrom(m, data) ==
  IF data = <<>> THEN m
  ELSE MinFrom(IF Head(data) < m THEN Head(data) ELSE m, Tail(data))

\* s_max with a default instead of the error on no data
s_max_default(data) ==
  IF data = <<>> THEN Ran(<<0>>) ELSE Ran(<<MaxFrom(Head(data), Tail(data))>>)

s_max(data) ==
  IF data = <<>> THEN Raised("ValueError", <<>>)
  ELSE Ran(<<MaxFrom(Head(data), Tail(data))>>)

s_min(data) ==
  IF data = <<>> THEN Raised("ValueError", <<>>)
  ELSE Ran(<<MinFrom(Head(data), Tail(data))>>)

\* the loop body of s_mean_var; st = [n, oldM, newM, oldS, newS]
MeanVarStep(st, x) ==
  LET n == st.n + 1
  IN  IF n = 1
      THEN [n |-> n, oldM |-> RInt(x), newM |-> RInt(x),
            oldS |-> RInt(0), newS |-> st.newS]
      ELSE LET newM == RAdd(st.oldM, RDiv(RSub(RInt(x), st.oldM), RInt(n)))
               newS == RAdd(st.oldS,
                            RMul(RSub(RInt(x), st.oldM), RSub(RInt(x), newM)))
           IN  [n |-> n, oldM |-> newM, newM |-> newM,
                oldS |-> newS, newS |-> newS]

RECURSIVE MeanVarLoop(_, _)
MeanVarLoop(st, data) ==
  IF data = <<>> THEN st ELSE MeanVarLoop(MeanVarStep(st, Head(data)), Tail(data))

\* s_mean_var yields the pair (mean, var)
s_mean_var(data) ==
  LET st == MeanVarLoop([n |-> 0, oldM |-> RInt(0), newM |-> RInt(0),
                         oldS |-> RInt(0), newS |-> RInt(0)], data)
      mean == IF st.n > 0 THEN st.newM ELSE RInt(0)
      var == IF st.n > 1 THEN RDiv(st.newS, RInt(st.n - 1)) ELSE RInt(0)
  IN  Ran(<<<<mean, var>>>>)

s_mean(data) == Ran(<<s_mean_var(data).yielded[1][1]>>)

s_var(data) == Ran(<<s_mean_var(data).yielded[1][2]>>)

(* numpy, as summary and median call it on a list of numbers *)

NpMean(data) == RDiv(RInt(SumFrom(0, data)), RInt(Len(data)))

\* numpy.var with its default ddof = 0: the mean of the squared deviations
RECURSIVE SqDevFrom(_, _, _)
SqDevFrom(s, mu, data) ==
  IF data = <<>> THEN s
  ELSE SqDevFrom(RAdd(s, RMul(RSub(RInt(Head(data)), mu), RSub(RInt(Head(data)), mu))),
                 mu, Tail(data))

NpVar(data) == RDiv(SqDevFrom(RInt(0), NpMean(data), data), RInt(Len(data)))

\* numpy.median: the middle of the sorted data, or the mean of the two middles
NpMedian(data) ==
  LET sorted == SortSeq(data, LAMBDA a, b : a < b)
      n == Len(data)
  IN  IF n % 2 = 1 THEN RInt(sorted[(n + 1) \div 2])
      ELSE Rat(sorted[n \div 2] + sorted[n \div 2 + 1], 2)

\* summary, once numpy is imported and the data is in the list data2: the
\* header goes to standard output, then min(data2) raises on an empty list.
\* A row is its seven fields; the rounded fields are in hundredths, and
\* std_dev is round(numpy.std, 2) with numpy.std = sqrt(numpy.var).
SummaryRow(data2) ==
  [size |-> Len(data2),
   min |-> 100 * MinFrom(Head(data2), Tail(data2)),
   mean |-> Round2(NpMean(data2)),
   median |-> Round2(NpMedian(data2)),
   max |-> 100 * MaxFrom(Head(data2), Tail(data2)),
   var |-> Round2(NpVar(data2)),
   std_dev |-> Round2Sqrt(NpVar(data2))]

summary(data2) ==
  IF data2 = <<>> THEN Raised("ValueError", <<>>)
  ELSE Ran(<<SummaryRow(data2)>>)

\* imap(m.sqrt, data), imap(m.log, data), imap(m.exp, data): one value per
\* input until math raises; a value is kept as the term fn(x)
MathRaises(fn, x) ==
  IF fn = "sqrt" /\ x < 0 THEN "ValueError"
  ELSE IF fn = "log" /\ x <= 0 THEN "ValueError"
  ELSE IF fn = "exp" /\ x > ExpMax THEN "OverflowError"
  ELSE "none"

RECURSIVE imap_math(_, _, _)
imap_math(fn, done, data) ==
  IF data = <<>> THEN Ran(done)
  ELSE IF MathRaises(fn, Head(data)) # "none"
  THEN Raised(MathRaises(fn, Head(data)), done)
  ELSE imap_math(fn, Append(done, [fn |-> fn, of |-> Head(data)]), Tail(data))

s_exp(data) == imap_math("exp", <<>>, data)
s_log(data) == imap_math("log", <<>>, data)
s_sqrt(data) == imap_math("sqrt", <<>>, data)

\* s_std: yield m.sqrt(s_var(data).next()); the variance is never negative
s_std(data) == Ran(<<[fn |-> "sqrt", of |-> s_var(data).yielded[1]]>>)

\* not-a-number, what numpy.median gives for no data
NaN == <<0, 0>>

\* median, once numpy is imported
median(data) == Ran(<<IF data = <<>> THEN NaN ELSE NpMedian(data)>>)

\* numpy.histogram(data, bins): the range is (min, max), (0, 1) for no data,
\* widened by a half on each side when min = max; bins equal-width bins, the
\* last one closed.  lo2 and hi2 are twice the ends of the range.
NpHistogram(data, bins) ==
  LET mn == IF data = <<>> THEN 0 ELSE MinFrom(Head(data), Tail(data))
      mx == IF data = <<>> THEN 1 ELSE MaxFrom(Head(data), Tail(data))
      lo2 == IF mn = mx THEN 2 * mn - 1 ELSE 2 * mn
      hi2 == IF mn = mx THEN 2 * mx + 1 ELSE 2 * mx
      bin(x) == IF 2 * x = hi2 THEN bins
                ELSE ((2 * x - lo2) * bins) \div (hi2 - lo2) + 1
  IN  [vals |-> [i \in 1..bins |->
                   Cardinality({k \in 1..Len(data) : bin(data[k]) = i})],
       bins |-> [i \in 1..(bins + 1) |->
                   Rat(lo2 * bins + (i - 1) * (hi2 - lo2), 2 * bins)]]

\* hist, once numpy is imported
hist(data, bins) == Ran(<<NpHistogram(data, bins)>>)

\* what a function does when run on all of data: Command.__call__
RunOn(function, data, bins) ==
  CASE function = "None" -> Ran(data)
    [] function = "s_sum" -> s_sum(data)
    [] function = "s_prod" -> s_prod(data)
    [] function = "s_max" -> s_max(data)
    [] function = "s_min" -> s_min(data)
    [] function = "s_sqrt" -> s_sqrt(data)
    [] function = "s_exp" -> s_exp(data)
    [] function = "s_log" -> s_log(data)
    [] function = "s_cumsum" -> s_cumsum(data)
    [] function = "s_cumprod" -> s_cumprod(data)
    [] function = "s_mean" -> s_mean(data)
    [] function = "s_var" -> s_var(data)
    [] function = "s_std" -> s_std(data)
    [] function = "s_mean_var" -> s_mean_var(data)
    [] function = "median" -> median(data)
    [] function = "hist" -> hist(data, bins)
    [] function = "summary" -> summary(data)

\* cumsum and cumprod collecting their results and yielding them at the end
YieldsPerInput_buffered(function) ==
  function \in {"None", "s_sqrt", "s_exp", "s_log"}

\* the functions that yield inside their loop over the data (and the
\* pass-through of a command with no function): each input's result is
\* yielded before the next input is asked for.  The others read the data to
\* its end first.
YieldsPerInput(function) ==
  function \in {"None", "s_sqrt", "s_exp", "s_log", "s_cumsum", "s_cumprod"}

NeedsNumpy(function) == function \in {"hist", "median", "summary"}

(* ------------------------------- state -------------------------------- *)

VARIABLES
  \* SpecCalc: the data, the transformations run on it, what each did
  data, applied, res,
  \* SpecHist: the histogram and max_width passed, what hist_formatter did
  histIn, histOut,
  \* SpecReg: CommandProcessor._commands, the names ever registered, and
  \* what the last method call returned
  commands, everRegistered, lastCall,
  \* Spec: the command line, whether numpy can be imported, the driver's
  \* position, the lines the reader has handed out, the numbers the parser
  \* has yielded, the value about to be printed, standard output, standard
  \* error, and the exit status
  argv, numpy, pc, rawLines, parsed, pending, out, err, exitStatus

calcVars == <<data, applied, res>>
histVars == <<histIn, histOut>>
regVars == <<commands, everRegistered, lastCall>>
driverVars == <<argv, numpy, pc, rawLines, parsed, pending, out, err, exitStatus>>
vars == <<calcVars, histVars, regVars, driverVars>>

\* the state of a part that the specification at hand does not run
CalcIdle == data = <<>> /\ applied = {} /\ res = <<>>
HistIdle == histIn = <<>> /\ histOut = <<>>
RegIdle == commands = <<>> /\ everRegistered = <<>> /\ lastCall = <<>>
DriverIdle ==
  /\ argv = <<>> /\ numpy = FALSE /\ pc = "idle" /\ rawLines = <<>>
  /\ parsed = <<>> /\ pending = <<>> /\ out = <<>> /\ err = <<>>
  /\ exitStatus = -1

(* ------------------- SpecCalc: the pure transformations --------------- *)

CalcCommands == {"sum", "prod", "cumsum", "cumprod", "var", "summary"}

InitCalc ==
  /\ data \in SeqsUpTo(0..MaxValue, MaxData)
  /\ applied = {}
  /\ res = [c \in CalcCommands |-> Ran(<<>>)]
  /\ HistIdle /\ RegIdle /\ DriverIdle

Apply(c, r) ==
  /\ c \notin applied
  /\ applied' = applied \cup {c}
  /\ res' = [res EXCEPT ![c] = r]
  /\ UNCHANGED <<data, histVars, regVars, driverVars>>

Apply_s_sum == Apply("sum", s_sum(data))
Apply_s_prod == Apply("prod", s_prod(data))
Apply_s_cumsum == Apply("cumsum", s_cumsum(data))
Apply_s_cumprod == Apply("cumprod", s_cumprod(data))
Apply_s_var == Apply("var", s_var(data))
Apply_summary == Apply("summary", summary(data))

NextCalc ==
  \/ Apply_s_sum
  \/ Apply_s_prod
  \/ Apply_s_cumsum
  \/ Apply_s_cumprod
  \/ Apply_s_var
  \/ Apply_summary

SpecCalc == InitCalc /\ [][NextCalc]_vars

\* the sum and the product of the first k inputs, counted from the k-th down
RECURSIVE SumOfFirst(_, _)
SumOfFirst(d, k) == IF k = 0 THEN 0 ELSE SumOfFirst(d, k - 1) + d[k]

RECURSIVE ProdOfFirst(_, _)
ProdOfFirst(d, k) == IF k = 0 THEN 1 ELSE ProdOfFirst(d, k - 1) * d[k]

\* C4: cumsum (cumprod) emits one output per input, the k-th being the sum
\* (product) of the first k inputs; so the output is as long as the input,
\* on a non-empty input its last output is the one value sum (prod) emits on
\* the same input, and on an empty input nothing is emitted.
C4_Cumulative ==
  /\ "cumsum" \in applied =>
       /\ res["cumsum"].raised = "none"
       /\ Len(res["cumsum"].yielded) = Len(data)
       /\ \A k \in 1..Len(data) : res["cumsum"].yielded[k] = SumOfFirst(data, k)
       /\ ("sum" \in applied /\ data # <<>>) =>
            /\ Len(res["sum"].yielded) = 1
            /\ Last(res["cumsum"].yielded) = res["sum"].yielded[1]
  /\ "cumprod" \in applied =>
       /\ res["cumprod"].raised = "none"
       /\ Len(res["cumprod"].yielded) = Len(data)
       /\ \A k \in 1..Len(data) : res["cumprod"].yielded[k] = ProdOfFirst(data, k)
       /\ ("prod" \in applied /\ data # <<>>) =>
            /\ Len(res["prod"].yielded) = 1
            /\ Last(res["cumprod"].yielded) = res["prod"].yielded[1]

\* cumsum, cumprod, sum and prod have all run on an input of two or more
\* numbers whose running sums and products differ from step to step
C4_Witness ==
  /\ {"cumsum", "cumprod", "sum", "prod"} \subseteq applied
  /\ Len(data) >= 2
  /\ res["cumsum"].yielded[1] # Last(res["cumsum"].yielded)
  /\ res["cumprod"].yielded[1] # Last(res["cumprod"].yielded)

\* the sum of the squared deviations of d from its mean, over n - 1
SampleVar(d) ==
  LET n == Len(d)
      mu == Rat(SumOfFirst(d, n), n)
      sq(k) == RMul(RSub(RInt(d[k]), mu), RSub(RInt(d[k]), mu))
      ss[k \in 0..n] == IF k = 0 THEN RInt(0) ELSE RAdd(ss[k - 1], sq(k))
  IN  RDiv(ss[n], RInt(n - 1))

\* C6: on n > 1 values the std_dev field of the summary row is the sample
\* standard deviation (squared deviations over n - 1, square root, rounded to
\* 2 decimals), and the var field is the n - 1 variance the var command
\* computes on the same input.
C6_SummarySampleStats ==
  ({"summary", "var"} \subseteq applied /\ Len(data) > 1) =>
    /\ res["summary"].yielded[1].std_dev = Round2Sqrt(SampleVar(data))
    /\ res["summary"].yielded[1].var = Round2(res["var"].yielded[1])

(* --------------------- SpecHist: hist_formatter ----------------------- *)
(* x = (vals, bins): vals the bin counts, bins the bin edges.  Of an edge  *)
(* the model keeps the length of its label '%0.2g' % b, which is all the   *)
(* layout reads.  A piece of the result string is a line of text or the    *)
(* newline between two lines.                                              *)

MaxOf(q) == CHOOSE m \in {q[i] : i \in 1..Len(q)} : \A i \in 1..Len(q) : q[i] <= m

\* the available width with one label counted instead of two
max_available_width_one_label(max_width, max_bin_len) == max_width - 5 - max_bin_len

\* max_available_width = max_width - 5 - (max_bin_len*2)
max_available_width(max_width, max_bin_len) == max_width - 5 - (max_bin_len * 2)

\* whether the bars are scaled: max_val + 5 + (max_bin_len*2) > max_width
needs_scaling(max_val, max_bin_len, max_width) ==
  max_val + 5 + (max_bin_len * 2) > max_width

\* tick_char * n is empty for n <= 0
TickLen(n) == IF n < 0 THEN 0 ELSE n

NewLine == [kind |-> "nl", lower |-> 0, upper |-> 0, close |-> "", len |-> 0, bar |-> 0]

\* '[%s,%s%s: %s' % (s_bins[i], s_bins[i+1], close, tick_char*v), the labels
\* right-justified to max_bin_len
TextLine(i, close, max_bin_len, v) ==
  [kind |-> "text", lower |-> i, upper |-> i + 1, close |-> close,
   len |-> 1 + max_bin_len + 1 + max_bin_len + 3 + TickLen(v), bar |-> TickLen(v)]

\* '\n'.join(lines)
RECURSIVE JoinLines(_)
JoinLines(lines) ==
  IF lines = <<>> THEN <<>>
  ELSE IF Len(lines) = 1 THEN lines
  ELSE <<Head(lines), NewLine>> \o JoinLines(Tail(lines))

\* integer (max_available_width * v) // max_val raises on max_val = 0 (numpy
\* integers warn and give 0 instead; either way a division by zero happened)
hist_formatter(x, max_width) ==
  LET vals == x.vals
      max_bin_len == MaxOf(x.bins)
      max_val == MaxOf(vals)
      scale == needs_scaling(max_val, max_bin_len, max_width)
      width == max_available_width(max_width, max_bin_len)
      vals2 == IF scale
               THEN [i \in 1..Len(vals) |-> (width * vals[i]) \div max_val]
               ELSE vals
      body == JoinLines([i \in 1..(Len(vals) - 1) |->
                           TextLine(i, ")", max_bin_len, vals2[i])])
  IN  IF scale /\ max_val = 0
      THEN [called |-> TRUE, raised |-> "ZeroDivisionError", s |-> <<>>]
      ELSE [called |-> TRUE, raised |-> "none",
            s |-> body \o <<NewLine,
                            TextLine(Len(vals), "]", max_bin_len, vals2[Len(vals)])>>]

\* counts on both sides of the scaling threshold of the default width, for
\* the shortest and the longest labels
CountVals == {0, 1, 57, 58, 73, 74}
LabelLens == {1, MaxLabelLen}
MaxWidths == {DefaultMaxWidth, 23, 6}

InitHist ==
  /\ \E vals \in SeqsUpTo(CountVals, MaxBins) \ {<<>>} :
       \E bins \in [1..(Len(vals) + 1) -> LabelLens] :
         histIn \in {[vals |-> vals, bins |-> bins, max_width |-> w] : w \in MaxWidths}
  /\ histOut = [called |-> FALSE, raised |-> "none", s |-> <<>>]
  /\ CalcIdle /\ RegIdle /\ DriverIdle

Call_hist_formatter ==
  /\ ~histOut.called
  /\ histOut' = hist_formatter(histIn, histIn.max_width)
  /\ UNCHANGED <<histIn, calcVars, regVars, driverVars>>

NextHist == Call_hist_formatter

SpecHist == InitHist /\ [][NextHist]_vars

\* the lines of a string: the runs of text between its newlines
RECURSIVE SplitLines(_)
SplitLines(str) ==
  IF \A i \in 1..Len(str) : str[i].kind # "nl" THEN <<str>>
  ELSE LET k == CHOOSE i \in 1..Len(str) :
                  str[i].kind = "nl" /\ \A j \in 1..(i - 1) : str[j].kind # "nl"
       IN  <<SubSeq(str, 1, k - 1)>> \o SplitLines(SubSeq(str, k + 1, Len(str)))

\* the text of the result, without its newlines
TextOf(str) == SelectSeq(str, LAMBDA piece : piece.kind = "text")

HistMaxCount == MaxOf(histIn.vals)
HistLabelWidth == MaxOf(histIn.bins)

\* C7: with the default max_width of 80, for every sequence of non-negative
\* counts (the all-zero one too) rendering completes with no division by
\* zero, and the bar of bin i is count_i long when max_count + 5 +
\* 2*label_width <= max_width, and floor(available_width * count_i / max_count)
\* long otherwise, available_width being max_width - 5 - 2*label_width.
C7_DefaultWidthBars ==
  (histOut.called /\ histIn.max_width = DefaultMaxWidth) =>
    /\ histOut.raised = "none"
    /\ Len(TextOf(histOut.s)) = Len(histIn.vals)
    /\ \A i \in 1..Len(histIn.vals) :
         TextOf(histOut.s)[i].bar =
           IF HistMaxCount + 5 + 2 * HistLabelWidth <= DefaultMaxWidth
           THEN histIn.vals[i]
           ELSE ((DefaultMaxWidth - 5 - 2 * HistLabelWidth) * histIn.vals[i])
                   \div HistMaxCount

\* rendered at the default width: an all-zero histogram, and one whose bars
\* were scaled down
C7_WitnessAllZero ==
  /\ histOut.called /\ histIn.max_width = DefaultMaxWidth
  /\ \A i \in 1..Len(histIn.vals) : histIn.vals[i] = 0

C7_Witness ==
  /\ histOut.called /\ histIn.max_width = DefaultMaxWidth
  /\ HistMaxCount + 5 + 2 * HistLabelWidth > DefaultMaxWidth
  /\ \E i \in 1..Len(histIn.vals) :
       /\ histIn.vals[i] > 0
       /\ TextOf(histOut.s)[i].bar < histIn.vals[i]
       /\ TextOf(histOut.s)[i].bar > 0

\* C10: when 2*label_width + 5 <= max_width, every output line is at most
\* max_width characters long; when the bars are scaled the largest count gets
\* a bar of exactly max_width - 5 - 2*label_width characters and count_i <=
\* count_j implies bar_i <= bar_j; exactly one line is rendered per bin and
\* only the last line closes with ']'.
C10_Layout ==
  (histOut.called /\ 2 * HistLabelWidth + 5 <= histIn.max_width) =>
    LET lines == SplitLines(histOut.s)
        text == TextOf(histOut.s)
        n == Len(histIn.vals)
    IN  /\ histOut.raised = "none"
        /\ \A k \in 1..Len(histOut.s) : histOut.s[k].len <= histIn.max_width
        /\ (HistMaxCount + 5 + 2 * HistLabelWidth > histIn.max_width) =>
             /\ \A i \in 1..n :
                  histIn.vals[i] = HistMaxCount =>
                    text[i].bar = histIn.max_width - 5 - 2 * HistLabelWidth
             /\ \A i, j \in 1..n :
                  histIn.vals[i] <= histIn.vals[j] => text[i].bar <= text[j].bar
        /\ Len(lines) = n
        /\ \A k \in 1..Len(lines) :
             /\ Len(lines[k]) = 1
             /\ lines[k][1].close = (IF k = n THEN "]" ELSE ")")

(* ------------------- SpecReg: the CommandProcessor -------------------- *)
(* A name is a string, kept as the sequence of its character codes so that *)
(* names compare as Python compares strings.                               *)

RegNames == {<<1>>, <<1, 2>>, <<2>>}

\* Python's a < b on strings
StrLt(a, b) ==
  \E k \in 1..(Len(b)) :
    /\ \A j \in 1..(k - 1) : j <= Len(a) /\ a[j] = b[j]
    /\ k - 1 <= Len(a)
    /\ (k > Len(a) \/ a[k] < b[k])

\* Command.__init__
Command(function, formatter, help) ==
  [function |-> function, formatter |-> formatter, help |-> help]

\* the functions a command of SpecReg may hold: none, a generator function
\* (its body runs on the first next()), a plain function that reads all of
\* its data when called (as summary does)
RegFunctions == {"None", "generator", "eager"}
RegHelps == {"h1"}
RegCommandObjects == {Command("generator", "str", "h2")}

NoCall ==
  [op |-> "none", name |-> <<>>, ret |-> FALSE, raised |-> "none",
   msg |-> "", pulled |-> 0, listing |-> <<>>]

InitReg ==
  /\ commands = <<>>
  /\ everRegistered = <<>>
  /\ lastCall = NoCall
  /\ CalcIdle /\ HistIdle /\ DriverIdle

\* self._commands[name] = value
SetItem(dict, name, value) ==
  [n \in DOMAIN dict \cup {name} |-> IF n = name THEN value ELSE dict[n]]

\* the command argument: None (the default), or a Command object
NoneCommand == [isNone |-> TRUE, obj |-> Command("None", "str", "None")]
RegCommandArgs == {NoneCommand} \cup {[isNone |-> FALSE, obj |-> c] : c \in RegCommandObjects}

\* register_command(name, command, function, formatter, help); "if command"
\* is true of every Command object and false of None
register_command(name, command, function, formatter, help) ==
  IF ~command.isNone
  THEN SetItem(commands, name, command.obj)
  ELSE SetItem(commands, name, Command(function, formatter, help))

Call_register_command ==
  /\ Len(everRegistered) < MaxRegs
  /\ \E name \in RegNames :
       \E command \in RegCommandArgs :
         \E function \in RegFunctions, help \in RegHelps :
           /\ commands' = register_command(name, command, function, "str", help)
           /\ everRegistered' = Append(everRegistered, <<name, commands'[name]>>)
           /\ lastCall' = [NoCall EXCEPT !.op = "register_command", !.name = name]
  /\ UNCHANGED <<calcVars, histVars, driverVars>>

\* valid_command: command in self._commands
valid_command(command) == command \in DOMAIN commands

Call_valid_command ==
  /\ \E name \in RegNames :
       lastCall' = [NoCall EXCEPT !.op = "valid_command", !.name = name,
                                  !.ret = valid_command(name)]
  /\ UNCHANGED <<commands, everRegistered, calcVars, histVars, driverVars>>

\* the items left in the order of the dictionary
unsorted_items(items) == items

\* sorted(self._commands.items()): the (name, command) pairs in ascending
\* order; names are unique, so the names alone decide the order
sorted_items(items) == SortSeq(items, LAMBDA a, b : StrLt(a[1], b[1]))

\* the items of the dictionary in the order the dictionary happens to hold
\* them, which Python leaves open: every order is possible
ItemOrders(dict) ==
  {items \in [1..Cardinality(DOMAIN dict) -> {<<n, dict[n]>> : n \in DOMAIN dict}] :
     \A i, j \in DOMAIN items : i # j => items[i] # items[j]}

\* command_list: one line '\t%s\t%s' % (name, c.help) per sorted item
command_list(items) ==
  LET srt == sorted_items(items)
  IN  [i \in 1..Len(items) |-> <<srt[i][1], srt[i][2].help>>]

Call_command_list ==
  /\ \E items \in ItemOrders(commands) :
       lastCall' = [NoCall EXCEPT !.op = "command_list",
                                  !.listing = command_list(items)]
  /\ UNCHANGED <<commands, everRegistered, calcVars, histVars, driverVars>>

\* CommandProcessor.process(command, data) up to its return: the lookup, the
\* ValueError for a missing name, else Command.process, which calls the
\* command's function on data and wraps the result in a lazy imap
process(command, dataLen) ==
  IF command \notin DOMAIN commands
  THEN [NoCall EXCEPT !.op = "process", !.name = command,
                      !.raised = "ValueError", !.msg = "Command not found"]
  ELSE [NoCall EXCEPT !.op = "process", !.name = command,
                      !.pulled = IF commands[command].function = "eager"
                                 THEN dataLen ELSE 0]

Call_process ==
  /\ \E name \in RegNames : lastCall' = process(name, RegDataLen)
  /\ UNCHANGED <<commands, everRegistered, calcVars, histVars, driverVars>>

NextReg ==
  \/ Call_register_command
  \/ Call_valid_command
  \/ Call_command_list
  \/ Call_process

SpecReg == InitReg /\ [][NextReg]_vars

\* the names of the register_command calls so far, and the entry of the
\* latest call for a name
NamesRegistered == {everRegistered[i][1] : i \in 1..Len(everRegistered)}
LatestEntry(n) ==
  everRegistered[CHOOSE i \in 1..Len(everRegistered) :
                   /\ everRegistered[i][1] = n
                   /\ \A j \in (i + 1)..Len(everRegistered) : everRegistered[j][1] # n][2]

\* C5: after any sequence of register_command calls the registry holds one
\* entry per distinct name ever registered, the latest one registered under
\* it; valid_command(name) is true exactly for those names; process(name,
\* data) on any other name raises 'Command not found' without consuming
\* data; command_list() lists every registered name exactly once, in
\* ascending lexicographic order.
C5_Registry ==
  /\ DOMAIN commands = NamesRegistered
  /\ \A n \in NamesRegistered : commands[n] = LatestEntry(n)
  /\ lastCall.op = "valid_command" =>
       (lastCall.ret <=> lastCall.name \in NamesRegistered)
  /\ (lastCall.op = "process" /\ lastCall.name \notin NamesRegistered) =>
       /\ lastCall.raised = "ValueError"
       /\ lastCall.msg = "Command not found"
       /\ lastCall.pulled = 0
  /\ (lastCall.op = "process" /\ lastCall.name \in NamesRegistered) =>
       lastCall.raised = "none"
  /\ lastCall.op = "command_list" =>
       /\ Len(lastCall.listing) = Cardinality(NamesRegistered)
       /\ {lastCall.listing[i][1] : i \in 1..Len(lastCall.listing)} = NamesRegistered
       /\ \A i \in 1..(Len(lastCall.listing) - 1) :
            StrLt(lastCall.listing[i][1], lastCall.listing[i + 1][1])
       /\ \A i \in 1..Len(lastCall.listing) :
            lastCall.listing[i][2] = commands[lastCall.listing[i][1]].help

\* command_list has listed two names out of order of registration, one of
\* them registered twice with different entries
C5_Witness ==
  /\ lastCall.op = "command_list"
  /\ Len(lastCall.listing) = 2
  /\ Len(everRegistered) = 3
  /\ everRegistered[1][1] = everRegistered[3][1]
  /\ everRegistered[1][2] # everRegistered[3][2]
  /\ StrLt(everRegistered[2][1], everRegistered[1][1])

(* ------------------------- Spec: the driver --------------------------- *)

\* the registrations of lines 216-240: name -> (function, formatter)
ModuleRegistry ==
  [sum |-> Command("s_sum", "str", "Add a list of numbers"),
   add |-> Command("s_sum", "str", "see sum"),
   sqrt |-> Command("s_sqrt", "str", "Square Root"),
   max |-> Command("s_max", "str", "Max"),
   min |-> Command("s_min", "str", "Min"),
   prod |-> Command("s_prod", "str", "Multiply a list of numbers"),
   hist |-> Command("hist", "hist_formatter", "Produce a histogram"),
   mean |-> Command("s_mean", "str", "Mean"),
   median |-> Command("median", "str", "Median"),
   var |-> Command("s_var", "str", "Variance"),
   std |-> Command("s_std", "str", "Standard Deviation"),
   cumsum |-> Command("s_cumsum", "str", "Cumulative sum"),
   cumprod |-> Command("s_cumprod", "str", "Cumulative product"),
   exp |-> Command("s_exp", "str", "Exponentiate every element in the list"),
   log |-> Command("s_log", "str", "Take the log of every element in the list"),
   print |-> Command("None", "str", "Just print the (cleaned) input"),
   help |-> Command("None", "str", "Print this message"),
   mean_var |-> Command("s_mean_var", "str", "Computes mean & variance with one pass"),
   summary |-> Command("summary", "str", "Summary statistics (not streaming mode)")]

\* x.strip()
IsSpace(ch) == ch = " "
RECURSIVE LStrip(_)
LStrip(x) == IF x # <<>> /\ IsSpace(Head(x)) THEN LStrip(Tail(x)) ELSE x
RECURSIVE RStrip(_)
RStrip(x) == IF x # <<>> /\ IsSpace(Last(x)) THEN RStrip(Front(x)) ELSE x
Strip(x) == RStrip(LStrip(x))

Digits == {"0", "1", "2", "3", "4", "5", "6", "7", "8", "9"}
DigitVal(ch) ==
  CASE ch = "0" -> 0 [] ch = "1" -> 1 [] ch = "2" -> 2 [] ch = "3" -> 3
    [] ch = "4" -> 4 [] ch = "5" -> 5 [] ch = "6" -> 6 [] ch = "7" -> 7
    [] ch = "8" -> 8 [] ch = "9" -> 9

RECURSIVE DecimalFrom(_, _)
DecimalFrom(v, t) == IF t = <<>> THEN v ELSE DecimalFrom(10 * v + DigitVal(Head(t)), Tail(t))

\* float(t) for the strings of the model: an optional sign and digits give a
\* number, anything else raises ValueError
IsNumeral(t) ==
  LET body == IF t # <<>> /\ Head(t) = "-" THEN Tail(t) ELSE t
  IN  body # <<>> /\ \A i \in 1..Len(body) : body[i] \in Digits
float(t) ==
  IF Head(t) = "-" THEN -DecimalFrom(0, Tail(t)) ELSE DecimalFrom(0, t)

\* a parser that drops the lines float() cannot convert
ParserStep_skip_bad(x) ==
  IF Len(Strip(x)) > 0 /\ x[1] # "#" /\ IsNumeral(Strip(x))
  THEN [kind |-> "yield", val |-> float(Strip(x))]
  ELSE [kind |-> "skip", val |-> 0]

\* one step of the generator l on the raw line x:
\*   float(x.strip()) ... if len(x.strip()) > 0 and x[0] != '#'
ParserStep(x) ==
  IF Len(Strip(x)) > 0 /\ x[1] # "#"
  THEN IF IsNumeral(Strip(x))
       THEN [kind |-> "yield", val |-> float(Strip(x))]
       ELSE [kind |-> "raise", val |-> 0]
  ELSE [kind |-> "skip", val |-> 0]

\* help_quit leaving with status 0 whatever i is
help_quit_status_0(i, e) ==
  [err |-> IF e = "" THEN <<"usage">> ELSE <<"usage", e>>, status |-> 0]

\* help_quit(i, e): the usage text and, if given, e go to standard error;
\* then sys.exit(i)
help_quit(i, e) ==
  [err |-> IF e = "" THEN <<"usage">> ELSE <<"usage", e>>, status |-> i]

\* an exception no except clause catches: the interpreter writes the
\* traceback to standard error and exits with status 1
Uncaught(exc) == [err |-> <<"Traceback">>, status |-> 1]

\* try: ... except ValueError, e: help_quit(1, e)
ExceptClause(exc, e) == IF exc = "ValueError" THEN help_quit(1, e) ELSE Uncaught(exc)

\* str(e) of the exceptions the run can raise
Message(function, exc) ==
  IF exc # "ValueError" THEN "math range error"
  ELSE IF function \in {"s_max", "s_min", "summary"} THEN "arg is an empty sequence"
  ELSE "math domain error"

\* Command.process: the formatter applied to a result, and print
Formatted(formatter, x) == [fmt |-> formatter, val |-> x]

\* the raw lines the reader may hand out: empty, blank, a comment, an
\* indented comment, numbers (one of them padded, one negative), and text
\* that is no number.  The number past ExpMax is offered to exp alone, the
\* one command it makes a difference to: the arithmetic of the others on it
\* would leave the integers TLC computes with.
Lines ==
  {<<>>, <<" ">>, <<"#", "1">>, <<" ", "#">>, <<"1">>, <<" ", "2", " ">>,
   <<"-", "1">>, <<"x">>}
LinesFor(command) ==
  IF command = "exp" THEN Lines \cup {<<"7", "1", "0">>} ELSE Lines

NoCommand == ""
Argvs ==
  {[command |-> c, bins |-> "absent"] :
     c \in {NoCommand, "bogus"} \cup DOMAIN ModuleRegistry}
  \cup {[command |-> "hist", bins |-> b] : b \in {"", "2"}}

InitDriver ==
  /\ argv \in Argvs
  /\ numpy \in (IF argv.command \in {"hist", "median", "summary"}
                THEN BOOLEAN ELSE {TRUE})
  /\ pc = "start"
  /\ rawLines = <<>>
  /\ parsed = <<>>
  /\ pending = <<>>
  /\ out = <<>>
  /\ err = <<>>
  /\ exitStatus = -1
  /\ commands = ModuleRegistry
  /\ everRegistered = <<>>
  /\ lastCall = NoCall
  /\ CalcIdle /\ HistIdle

Function == commands[argv.command].function
Bins == IF argv.bins = "2" THEN 2 ELSE num_hist_bins

\* the process ends: what goes to standard error, and the exit status
Exit(how) ==
  /\ err' = err \o how.err
  /\ exitStatus' = how.status
  /\ pc' = "exit"

\* lines 278-293, up to the first request for input: the checks of the
\* command line, the lookup of the command, and the import of numpy that
\* summary makes when called and hist and median on their first next()
Main_Start ==
  /\ pc = "start"
  /\ IF argv.command = NoCommand THEN Exit(help_quit(1, ""))
     ELSE IF argv.command = "help" THEN Exit(help_quit(0, ""))
     ELSE IF argv.command = "hist" /\ argv.bins = "" THEN Exit(Uncaught("ValueError"))
     ELSE IF process(argv.command, 0).raised # "none"
     THEN Exit(ExceptClause(process(argv.command, 0).raised,
                            process(argv.command, 0).msg))
     ELSE IF NeedsNumpy(Function) /\ ~numpy
     THEN Exit(ExceptClause("ValueError", "numpy needed"))
     ELSE pc' = "next" /\ UNCHANGED <<err, exitStatus>>
  /\ UNCHANGED <<argv, numpy, rawLines, parsed, pending, out>>
  /\ UNCHANGED <<calcVars, histVars, regVars>>

\* read(): the next raw line, or the end of the input
Reader_Next ==
  /\ pc = "next"
  /\ \/ /\ Len(rawLines) < MaxLines
        /\ \E x \in LinesFor(argv.command) : rawLines' = Append(rawLines, x)
        /\ pc' = "line"
     \/ /\ pc' = "eof"
        /\ UNCHANGED rawLines
  /\ UNCHANGED <<argv, numpy, parsed, pending, out, err, exitStatus>>
  /\ UNCHANGED <<calcVars, histVars, regVars>>

\* the generator l on the line just read: skip it, yield its number to the
\* transformation, or raise the ValueError of float(), which nothing below
\* the driver's try catches
Parser_Line ==
  /\ pc = "line"
  /\ LET step == ParserStep(Last(rawLines))
     IN  CASE step.kind = "skip" ->
                pc' = "next" /\ UNCHANGED <<parsed, err, exitStatus>>
           [] step.kind = "yield" ->
                /\ parsed' = Append(parsed, step.val)
                /\ pc' = "feed"
                /\ UNCHANGED <<err, exitStatus>>
           [] step.kind = "raise" ->
                /\ Exit(ExceptClause("ValueError", "could not convert string to float"))
                /\ UNCHANGED parsed
  /\ UNCHANGED <<argv, numpy, rawLines, pending, out>>
  /\ UNCHANGED <<calcVars, histVars, regVars>>

\* the transformation takes the number just parsed: a function that yields
\* per input yields its result (or raises), any other asks for more
Transform_Feed ==
  /\ pc = "feed"
  /\ IF YieldsPerInput(Function)
     THEN LET r == RunOn(Function, parsed, Bins)
          IN  IF Len(r.yielded) = Len(parsed)
              THEN /\ pending' = <<Formatted(commands[argv.command].formatter,
                                             Last(r.yielded))>>
                   /\ pc' = "print"
                   /\ UNCHANGED <<err, exitStatus>>
              ELSE /\ Exit(ExceptClause(r.raised, Message(Function, r.raised)))
                   /\ UNCHANGED pending
     ELSE pc' = "next" /\ UNCHANGED <<pending, err, exitStatus>>
  /\ UNCHANGED <<argv, numpy, rawLines, parsed, out>>
  /\ UNCHANGED <<calcVars, histVars, regVars>>

\* the input has ended.  A function that yields per input ends too.  Any
\* other now computes: summary prints its header first; what the function
\* yields is queued for print, and what it raises reaches the except clause
Transform_End ==
  /\ pc = "eof"
  /\ LET r == RunOn(Function, parsed, Bins)
         header == IF Function = "summary"
                   THEN <<Formatted("print", "size min mean median max var std_dev")>>
                   ELSE <<>>
         todo == IF YieldsPerInput(Function) THEN <<>>
                 ELSE [i \in 1..Len(r.yielded) |->
                         Formatted(commands[argv.command].formatter, r.yielded[i])]
     IN  /\ out' = out \o header
         /\ IF ~YieldsPerInput(Function) /\ r.raised # "none"
            THEN /\ Exit(ExceptClause(r.raised, Message(Function, r.raised)))
                 /\ UNCHANGED pending
            ELSE IF todo = <<>>
            THEN /\ pc' = "exit" /\ exitStatus' = 0
                 /\ UNCHANGED <<pending, err>>
            ELSE /\ pending' = todo
                 /\ pc' = "printLast"
                 /\ UNCHANGED <<err, exitStatus>>
  /\ UNCHANGED <<argv, numpy, rawLines, parsed>>
  /\ UNCHANGED <<calcVars, histVars, regVars>>

\* for x in c.process(command, l): print x.  After the print the loop asks
\* for the next result; past the last result of a finished function the
\* loop and the script end, with status 0
Main_Print ==
  /\ pc \in {"print", "printLast"}
  /\ out' = Append(out, Head(pending))
  /\ pending' = Tail(pending)
  /\ IF pc = "print" THEN pc' = "next" /\ UNCHANGED exitStatus
     ELSE IF Tail(pending) # <<>> THEN pc' = "printLast" /\ UNCHANGED exitStatus
     ELSE pc' = "exit" /\ exitStatus' = 0
  /\ UNCHANGED <<argv, numpy, rawLines, parsed, err>>
  /\ UNCHANGED <<calcVars, histVars, regVars>>

Next ==
  \/ Main_Start
  \/ Reader_Next
  \/ Parser_Line
  \/ Transform_Feed
  \/ Transform_End
  \/ Main_Print

Spec == InitDriver /\ [][Next]_vars

(* ----------------------- the driver's properties ---------------------- *)

Command_ == argv.command
Registered == Command_ \in DOMAIN ModuleRegistry
ConversionError == "could not convert string to float"
ConversionFailed == pc = "exit" /\ \E i \in 1..Len(err) : err[i] = ConversionError

\* a line that is neither blank nor a comment: trimmed, it is not empty and
\* does not start with '#'
IsDataLine(x) == Strip(x) # <<>> /\ Head(Strip(x)) # "#"

\* the lines the parser is through with (it has skipped them or yielded
\* their numbers)
LinesSettled ==
  IF pc = "line" \/ ConversionFailed THEN Front(rawLines) ELSE rawLines

NumbersOf(lines) == [i \in 1..Len(lines) |-> float(Strip(lines[i]))]

\* C1: the parser yields exactly the numbers of the lines that, trimmed, are
\* non-empty and do not start with '#', in input order; a line that is empty
\* once trimmed, or whose first non-whitespace character is '#' (a '#' after
\* leading whitespace too), is discarded without error.
C1_ParserFilter ==
  /\ ConversionFailed => IsDataLine(Last(rawLines))
  /\ parsed = NumbersOf(SelectSeq(LinesSettled, IsDataLine))

\* float() is handed a line it cannot convert: a line the generator l keeps
\* is not a numeral
Unparseable(x) == ParserStep(x).kind = "raise"

\* the errors a run on this command line, this input and this installation
\* must meet
RunError ==
  \/ Command_ = "hist" /\ argv.bins = ""
  \/ NeedsNumpy(ModuleRegistry[Command_].function) /\ ~numpy
  \/ \E i \in 1..Len(rawLines) : Unparseable(rawLines[i])
  \/ Command_ \in {"max", "min", "summary"} /\ parsed = <<>>
  \/ \E k \in 1..Len(parsed) :
       \/ Command_ = "sqrt" /\ parsed[k] < 0
       \/ Command_ = "log" /\ parsed[k] <= 0
       \/ Command_ = "exp" /\ parsed[k] > ExpMax

\* C2: a run ends with exit status 0 exactly when the command is 'help' or a
\* registered command ran to completion without error, and with status 1
\* when no command is given, the name is not registered or a runtime error
\* occurs; on status 1 a message has been written to standard error.
C2_ExitStatus ==
  /\ pc # "exit" => exitStatus = -1
  /\ pc = "exit" =>
       /\ exitStatus \in {0, 1}
       /\ exitStatus = 0 <=>
            (Command_ = "help" \/ (Registered /\ ~RunError))
       /\ exitStatus = 1 => err # <<>>

\* a run that printed results and then ended with status 1, and nothing else
\* has status 0 but a run without error
C2_Witness ==
  /\ pc = "exit" /\ exitStatus = 1 /\ Len(out) >= 1 /\ Len(err) = 2
  /\ Command_ = "log"

C2_WitnessOk == pc = "exit" /\ exitStatus = 0 /\ out # <<>> /\ Command_ = "median"

\* the input has ended and the parser yielded no number
EmptyInputRun ==
  /\ pc = "exit" /\ parsed = <<>>
  /\ \A i \in 1..Len(rawLines) : ParserStep(rawLines[i]).kind = "skip"

\* C3: on an empty parsed input, max and min emit nothing and the run ends
\* with status 1; sum and add emit the one value 0, prod the one value 1, and
\* the run ends with status 0.
C3_EmptyInput ==
  EmptyInputRun =>
    /\ Command_ \in {"max", "min"} => out = <<>> /\ exitStatus = 1 /\ err # <<>>
    /\ Command_ \in {"sum", "add"} =>
         Len(out) = 1 /\ out[1].val = 0 /\ exitStatus = 0
    /\ Command_ = "prod" => Len(out) = 1 /\ out[1].val = 1 /\ exitStatus = 0

C3_Witness == EmptyInputRun /\ Command_ = "max" /\ Len(rawLines) >= 2

C3_WitnessSum == EmptyInputRun /\ Command_ = "sum" /\ Len(rawLines) >= 2

StreamingCommands == {"print", "sqrt", "exp", "log", "cumsum", "cumprod"}

\* the output line of the k-th parsed number under a streaming command
StreamedLine(k) ==
  [fmt |-> "str",
   val |-> CASE Command_ = "print" -> parsed[k]
             [] Command_ = "cumsum" -> SumOfFirst(parsed, k)
             [] Command_ = "cumprod" -> ProdOfFirst(parsed, k)
             [] OTHER -> [fn |-> Command_, of |-> parsed[k]]]

\* C8 as stated: under a streaming command the output of the k-th parsed
\* number is written before the (k+1)-th input line is requested from the
\* reader, outputs are in input order, and there are never more output lines
\* than numbers parsed.
C8_BeforeLineKPlus1 ==
  Command_ \in StreamingCommands =>
    /\ \A k \in 1..Len(parsed) : Len(rawLines) >= k + 1 => Len(out) >= k
    /\ Len(out) <= Len(parsed)
    /\ \A k \in 1..Len(out) : out[k] = StreamedLine(k)

\* C8, amended: under a streaming command the output of every parsed number
\* is written before a further input line is requested from the reader (at
\* each request, as many output lines are written as numbers are parsed),
\* outputs are in input order, and there are never more output lines than
\* numbers parsed.
C8_Streaming ==
  Command_ \in StreamingCommands =>
    /\ pc \in {"next", "line", "eof"} => Len(out) = Len(parsed)
    /\ Len(out) <= Len(parsed)
    /\ \A k \in 1..Len(out) : out[k] = StreamedLine(k)

\* cumsum has written two different results and the reader has just handed
\* out a third line
C8_Witness ==
  /\ Command_ = "cumsum" /\ pc = "line" /\ Len(out) = 2 /\ Len(rawLines) > 2
  /\ out[1] # out[2]

\* a line that is neither blank nor a comment and that is no number
IsBadLine(x) == IsDataLine(x) /\ ~IsNumeral(Strip(x))

\* C9: when a non-blank, non-comment line fails numeric conversion the run
\* stops at that line: no later line is read, nothing more is written to
\* standard output (a command that yields per input has written the results
\* of the numbers before the line, any other has written nothing), the usage
\* and the error go to standard error, and the exit status is 1.
C9_StopAtBadLine ==
  /\ \A i \in 1..(Len(rawLines) - 1) : ~IsBadLine(rawLines[i])
  /\ (rawLines # <<>> /\ IsBadLine(Last(rawLines)) /\ pc # "line") =>
       /\ pc = "exit"
       /\ exitStatus = 1
       /\ err = <<"usage", ConversionError>>
       /\ pending = <<>>
       /\ Len(out) = IF YieldsPerInput(ModuleRegistry[Command_].function)
                     THEN Len(parsed) ELSE 0

\* a run of cumsum stopped at a bad line after two results
C9_Witness ==
  /\ pc = "exit" /\ Command_ = "cumsum" /\ Len(out) = 2
  /\ IsBadLine(Last(rawLines))

\* a run of summary stopped at a bad line after two numbers
C9_WitnessBatch ==
  /\ pc = "exit" /\ Command_ = "summary" /\ Len(parsed) = 2
  /\ IsBadLine(Last(rawLines))

====
